---------------------------- MODULE Spec2Model ----------------------------
(***************************************************************************)
(* Command arbitration of the CARLA remote client                          *)
(* (src/use_case_controller.py).                                           *)
(*                                                                         *)
(* Two threads share one CarlaGame object:                                 *)
(*   - the session thread, which runs CarlaGame.execute: one               *)
(*     _on_new_episode, then _on_loop for ever (the arbitration tick);     *)
(*   - the HTTP server thread, which runs do_POST for one request at a     *)
(*     time (HTTPServer is not a threading server) and calls the           *)
(*     CarlaGame mutators.                                                 *)
(* No lock guards the object, so the steps of a tick interleave with the   *)
(* requests.  A tick is cut at every point where it reads the shared       *)
(* fields (_enable_autopilot, _is_on_reverse, enabled_commands); a request *)
(* is one step, since the tick only reads what a request writes and every  *)
(* order of a request's writes is seen by the tick as one of the orders    *)
(* of whole requests.                                                      *)
(*                                                                         *)
(* Two specifications:                                                     *)
(*   - Spec: one session, which main has connected and whose game object   *)
(*     exists; the link to the simulator is up, so start_episode and       *)
(*     read_data are answered.  Every request interleaves with the tick.   *)
(*   - SpecServer: from run() on.  The global game is None until a thread  *)
(*     started by a startserver request has connected; the link comes and  *)
(*     goes; main retries, execute ends.  The tick and the requests are    *)
(*     those of Spec, with the queue kept short.                           *)
(*                                                                         *)
(* Numbers: steer, throttle and brake are in hundredths (-1 is -0.01,      *)
(* 100 is 1.0); coordinates and thresholds are whole units.                *)
(***************************************************************************)
EXTENDS Integers, Sequences, FiniteSets, TLC

VARIABLES
    enable_autopilot,    \* CarlaGame._enable_autopilot
    is_on_reverse,       \* CarlaGame._is_on_reverse
    enabled_commands,    \* CarlaGame.enabled_commands: the list the field names
    measurements,        \* CarlaGame.measurements: the last snapshot read, or None
    pc,                  \* where the session thread stands
    number_of_commands,  \* _on_loop's local number_of_commands
    it_index,            \* index of the list iterator of _on_loop's for loop
    it_shared,           \* whether that iterator's list is still the one the field names
    it_list,             \* the iterator's list once the field names another list
    sent,                \* the directives send_control got in the current tick, in order
    arrivals,            \* requests handled since the running tick read its snapshot
    content,             \* payload of the last POST request
    framer,              \* the status messages that request delivered
    raised,              \* whether that request's handler ended with an exception
    link,                \* whether the simulator answers (connect, start_episode, read_data)
    game,                \* the global game: 0 is None, t is the CarlaGame made by thread t
    main                 \* where each thread started for main stands

vars == << enable_autopilot, is_on_reverse, enabled_commands, measurements,
           pc, number_of_commands, it_index, it_shared, it_list, sent,
           arrivals, content, framer, raised, link, game, main >>

\* Python's None, where a snapshot or a record is expected.
None == [ none |-> TRUE ]

Range(s) == { s[i] : i \in 1..Len(s) }

-----------------------------------------------------------------------------
(* Program constants *)

vehicle_distance_threshold == 30
traffic_light_distance_threshold == 30
pedestrian_distance_threshold == 10
speed_limit_distance_threshold == 20

\* The bound methods the queue holds.
Commands == { "steer_left", "steer_right", "accelerate", "decelerate", "throw_brake" }

\* Tokens sent to the secondary screen.
SECONDARY_SCREEN_COMMANDS ==
    { "reset", "left", "left_stop", "right", "right_stop", "speed_up",
      "speed_up_stop", "slow_down", "slow_down_stop", "stop" }

\* carla VehicleControl(): every field at its default.
VehicleControl ==
    [ steer |-> 0, throttle |-> 0, brake |-> 0, hand_brake |-> FALSE, reverse |-> FALSE ]

-----------------------------------------------------------------------------
(* Inputs: the snapshots client.read_data() may return *)

Agent(kind, x, y, z) == [ kind |-> kind, location |-> << x, y, z >> ]

\* The autonomous directives the simulator attaches to the snapshots.
Cruise == [ steer |-> 2, throttle |-> 50, brake |-> 0, hand_brake |-> FALSE, reverse |-> FALSE ]
Halt   == [ steer |-> 0, throttle |-> 0, brake |-> 100, hand_brake |-> FALSE, reverse |-> FALSE ]

Snapshot(player, control, agents) ==
    [ player |-> player, autopilot_control |-> control, non_player_agents |-> agents ]

\* The snapshots a tick may read.
Snapshots ==
    { \* an empty road
      Snapshot(<< 0, 0, 0 >>, Cruise, << >>),
      \* a traffic light at distance 29 < 30
      Snapshot(<< 0, 0, 0 >>, Cruise, << Agent("traffic_light", 0, 21, 20) >>),
      \* a far vehicle, then a pedestrian at distance 5 < 10
      Snapshot(<< 1, 1, 1 >>, Halt,
               << Agent("vehicle", 31, 41, 1), Agent("pedestrian", 4, 5, 1) >>),
      \* a pedestrian at distance 10 (not < 10) and a vehicle at distance 5 < 30
      Snapshot(<< 0, 0, 0 >>, Cruise,
               << Agent("pedestrian", 6, 8, 0), Agent("vehicle", 3, 0, 4) >>),
      \* a speed limit sign nearby, a traffic light at distance 30 (not < 30)
      Snapshot(<< 0, 0, 0 >>, Halt,
               << Agent("speed_limit_sign", 3, 4, 0), Agent("traffic_light", 18, 24, 0) >>) }

-----------------------------------------------------------------------------
(* Proximity *)

\* The largest sum of squares the snapshots produce is below MaxRoot^2.
MaxRoot == 100

\* math.sqrt, to the whole unit below: for a whole threshold t,
\* sqrt(n) < t exactly when Floor(sqrt(n)) < t.
Sqrt(n) == CHOOSE r \in 0..MaxRoot : r * r <= n /\ n < (r + 1) * (r + 1)

distance_between(car_position, agent_position) ==
    LET sum_x_2 == (agent_position[1] - car_position[1]) * (agent_position[1] - car_position[1])
        sum_y_2 == (agent_position[2] - car_position[2]) * (agent_position[2] - car_position[2])
        sum_z_2 == (agent_position[3] - car_position[3]) * (agent_position[3] - car_position[3])
    IN  Sqrt(sum_x_2 + sum_y_2 + sum_z_2)

too_close_to(m, field, distance_threshold) ==
    IF m = None
    THEN FALSE
    ELSE \E i \in 1..Len(m.non_player_agents) :
            /\ m.non_player_agents[i].kind = field
            /\ distance_between(m.player, m.non_player_agents[i].location)
                 < distance_threshold

moving_out_of_lane == FALSE


-----------------------------------------------------------------------------
(* The commands: each builds one directive from the episode state *)

Max(a, b) == IF a >= b THEN a ELSE b
Min(a, b) == IF a <= b THEN a ELSE b

steer_left(m, reverse) ==
    [ VehicleControl EXCEPT !.steer = Max(@ - 1, -5),
                            !.reverse = reverse,
                            !.throttle = m.autopilot_control.throttle ]

steer_right(m, reverse) ==
    [ VehicleControl EXCEPT !.steer = Min(@ + 1, 5),
                            !.reverse = reverse,
                            !.throttle = m.autopilot_control.throttle ]

accelerate(m, reverse) ==
    [ VehicleControl EXCEPT !.throttle = IF too_close_to(m, "vehicle", vehicle_distance_threshold)
                                         THEN m.autopilot_control.throttle
                                         ELSE 100,
                            !.reverse = reverse ]

decelerate(m, reverse) ==
    [ VehicleControl EXCEPT !.brake = 50, !.reverse = reverse ]

throw_brake(m, reverse) ==
    [ VehicleControl EXCEPT !.hand_brake = TRUE ]

\* command(): the directive the bound method `command` sends.
Call(command, m, reverse) ==
    CASE command = "steer_left"  -> steer_left(m, reverse)
      [] command = "steer_right" -> steer_right(m, reverse)
      [] command = "accelerate"  -> accelerate(m, reverse)
      [] command = "decelerate"  -> decelerate(m, reverse)
      [] command = "throw_brake" -> throw_brake(m, reverse)

\* client.send_control(control), issued from the place `by` of the tick.
Sent(by, control) == [ by |-> by, control |-> control ]

-----------------------------------------------------------------------------
(* The list object behind enabled_commands *)

\* The list the for loop of _on_loop iterates.
IterList == IF it_shared THEN enabled_commands ELSE it_list

\* self.enabled_commands = [...]: the field names a new list; a running
\* iterator keeps the old one.
Rebind(new) ==
    /\ enabled_commands' = new
    /\ IF it_shared
       THEN it_shared' = FALSE /\ it_list' = enabled_commands
       ELSE UNCHANGED << it_shared, it_list >>

\* append / remove: the list the field names changes in place, under a
\* running iterator too.
InPlace(new) ==
    /\ enabled_commands' = new
    /\ UNCHANGED << it_shared, it_list >>

\* list.remove(x): the list without its first x.
Remove(list, x) ==
    LET i == CHOOSE k \in 1..Len(list) : list[k] = x /\ \A j \in 1..(k - 1) : list[j] # x
    IN  SubSeq(list, 1, i - 1) \o SubSeq(list, i + 1, Len(list))

-----------------------------------------------------------------------------
(* The session thread: CarlaGame.execute *)

tick_locals == << number_of_commands, it_index, it_shared, it_list >>
request_vars == << content, framer, raised >>
lifecycle_vars == << link, game, main >>

\* The threads a startserver request may start.
MaxSessions == 2
Sessions == 1..MaxSessions

\* CarlaGame.__init__: the fields of a new game object.
NewGame ==
    /\ enable_autopilot = TRUE
    /\ is_on_reverse = FALSE
    /\ enabled_commands = << >>
    /\ measurements = None

\* One session: main has connected and made the game object, execute begins.

Init ==
    /\ NewGame
    /\ link = TRUE
    /\ game = 1
    /\ main = [ t \in Sessions |-> IF t = 1 THEN "execute" ELSE "unborn" ]
    /\ pc = "new_episode"
    /\ number_of_commands = 0
    /\ it_index = 0
    /\ it_shared = FALSE
    /\ it_list = << >>
    /\ sent = << >>
    /\ arrivals = 0
    /\ content = ""
    /\ framer = << >>
    /\ raised = FALSE

\* Mutant of new_episode_reverse: the flag is not touched.
reverse_left_alone == is_on_reverse

\* _on_new_episode: what it leaves in the reverse flag and the queue.
new_episode_reverse == FALSE
new_episode_commands == << >>

\* execute -> _initialize_game -> _on_new_episode
initialize_game ==
    /\ pc = "new_episode"
    /\ is_on_reverse' = new_episode_reverse
    /\ Rebind(new_episode_commands)
    /\ pc' = "read"
    /\ UNCHANGED << enable_autopilot, measurements, number_of_commands, it_index, sent,
                    arrivals, request_vars, lifecycle_vars >>

\* Mutant of override: the pedestrian check is left out.
override_light_only(m) ==
    IF too_close_to(m, "traffic_light", traffic_light_distance_threshold)
    THEN "traffic_light"
    ELSE ""

\* The check of _on_loop that ends the tick with the autonomous directive:
\* "traffic_light", "pedestrian", or "" when neither is too close.  The speed
\* limit check before them has an empty body.
override(m) ==
    IF too_close_to(m, "traffic_light", traffic_light_distance_threshold)
    THEN "traffic_light"
    ELSE IF too_close_to(m, "pedestrian", pedestrian_distance_threshold)
         THEN "pedestrian"
         ELSE ""

\* _on_loop: self.measurements, sensor_data = self.client.read_data(), then
\* the proximity checks, which read nothing but the snapshot.
read_data ==
    /\ pc = "read"
    /\ \E m \in Snapshots :
          /\ measurements' = m
          /\ IF override(m) # ""
             THEN /\ sent' = Append(sent, Sent(override(m), m.autopilot_control))
                  /\ pc' = "return"
             ELSE /\ sent' = sent
                  /\ pc' = "count"
    /\ arrivals' = 0
    /\ UNCHANGED << enable_autopilot, is_on_reverse, enabled_commands,
                    tick_locals, request_vars, lifecycle_vars >>

\* _on_loop: number_of_commands = len(self.enabled_commands)
count_commands ==
    /\ pc = "count"
    /\ number_of_commands' = Len(enabled_commands)
    /\ pc' = "autopilot"
    /\ UNCHANGED << enable_autopilot, is_on_reverse, enabled_commands, measurements,
                    it_index, it_shared, it_list, sent, arrivals, request_vars, lifecycle_vars >>

\* Mutant of autopilot_drives: the count of queued commands is not looked at.
autopilot_whatever_queued(autopilot, n) == autopilot

\* Mutant of autopilot_drives: the flag is read the wrong way round.
autopilot_inverted(autopilot, n) == ~autopilot /\ n = 0

\* The condition under which _on_loop sends the autonomous directive.
autopilot_drives(autopilot, n) == autopilot /\ n = 0

\* _on_loop: if self._enable_autopilot and number_of_commands == 0: send.
\* Then lane_position_alert and if (number_of_commands > 0): for command in
\* self.enabled_commands -- the iterator is made on the list the field names
\* now.  With commands counted the flag decides nothing, so its read and the
\* making of the iterator are one step.
check_autopilot ==
    /\ pc = "autopilot"
    /\ sent' = IF autopilot_drives(enable_autopilot, number_of_commands)
               THEN Append(sent, Sent("autopilot", measurements.autopilot_control))
               ELSE sent
    /\ IF number_of_commands > 0
       THEN /\ it_shared' = TRUE
            /\ pc' = "loop"
       ELSE /\ it_shared' = FALSE
            /\ pc' = "return"
    /\ it_list' = << >>
    /\ it_index' = 0
    /\ UNCHANGED << enable_autopilot, is_on_reverse, enabled_commands, measurements,
                    number_of_commands, arrivals, request_vars, lifecycle_vars >>

\* Mutant of skipped: the vehicle test of the loop is left out.
skipped_lane_only(m, command, lane_position_alert) ==
    \/ lane_position_alert /\ command = "steer_left"
    \/ lane_position_alert /\ command = "steer_right"

\* Mutant of skipped: accelerate is passed over whether or not a vehicle is near.
skipped_accelerate_always(m, command, lane_position_alert) ==
    \/ command = "accelerate"
    \/ lane_position_alert /\ command = "steer_left"
    \/ lane_position_alert /\ command = "steer_right"

\* The commands the loop body passes over without calling them.
skipped(m, command, lane_position_alert) ==
    \/ too_close_to(m, "vehicle", vehicle_distance_threshold) /\ command = "accelerate"
    \/ lane_position_alert /\ command = "steer_left"
    \/ lane_position_alert /\ command = "steer_right"

\* One round of the for loop: the iterator's next element, the two filters,
\* command(); or the end of the loop and of the tick.
loop_step ==
    /\ pc = "loop"
    /\ IF it_index < Len(IterList)
       THEN LET command == IterList[it_index + 1]
            IN  /\ it_index' = it_index + 1
                /\ sent' = IF skipped(measurements, command, moving_out_of_lane)
                           THEN sent
                           ELSE Append(sent, Sent(command,
                                    Call(command, measurements, is_on_reverse)))
                /\ pc' = "loop"
                /\ UNCHANGED << it_shared, it_list >>
       ELSE /\ it_index' = 0
            /\ it_shared' = FALSE
            /\ it_list' = << >>
            /\ sent' = sent
            /\ pc' = "return"
    /\ UNCHANGED << enable_autopilot, is_on_reverse, enabled_commands, measurements,
                    number_of_commands, arrivals, request_vars, lifecycle_vars >>

\* Mutant of return: the tick takes the commands out of the queue once it has
\* gone through them.
return_consuming ==
    /\ pc = "return"
    /\ number_of_commands' = 0
    /\ sent' = << >>
    /\ pc' = "read"
    /\ arrivals' = 0
    /\ enabled_commands' = << >>
    /\ UNCHANGED << enable_autopilot, is_on_reverse, measurements,
                    it_index, it_shared, it_list, request_vars, lifecycle_vars >>

\* _on_loop returns to the while loop of execute: its locals are gone.
return ==
    /\ pc = "return"
    /\ number_of_commands' = 0
    /\ sent' = << >>
    /\ pc' = "read"
    /\ arrivals' = 0
    /\ UNCHANGED << enable_autopilot, is_on_reverse, enabled_commands, measurements,
                    it_index, it_shared, it_list, request_vars, lifecycle_vars >>

on_loop ==
    \/ read_data
    \/ count_commands
    \/ check_autopilot
    \/ loop_step
    \/ return

-----------------------------------------------------------------------------
(* The HTTP server thread: do_POST and the mutators it calls *)

session_vars == << measurements, pc, number_of_commands, it_index, sent >>

\* A tick is running from its read_data to its return.
InTick == pc \in { "count", "autopilot", "loop", "return" }

\* The requests explored: at most MaxArrivals of them while one tick runs.
MaxArrivals == 1

\* do_POST reads the payload.
Request(payload) ==
    /\ InTick => arrivals < MaxArrivals
    /\ arrivals' = IF InTick THEN arrivals + 1 ELSE 0
    /\ content' = payload

\* send_framer_message(msg): requests.get delivers msg, or raises when the
\* secondary screen cannot be reached.
send_framer_message(msg) ==
    \E reachable \in BOOLEAN :
        /\ framer' = IF reachable THEN << msg >> ELSE << >>
        /\ raised' = ~reachable

\* A mutator that returns without calling send_framer_message.
Quiet ==
    /\ framer' = << >>
    /\ raised' = FALSE

\* Mutant of added: the membership test is left out.
added_unchecked(commands, command) == Append(commands, command)

\* add_left, add_right, add_accel, add_decel: the queue after the call.
added(commands, command) ==
    IF command \notin Range(commands) THEN Append(commands, command) ELSE commands

\* remove_left, remove_right, remove_accel, remove_decel: the queue after the call.
removed(commands, command) ==
    IF command \in Range(commands) THEN Remove(commands, command) ELSE commands

\* The body shared by the four add_* methods.
add(payload, command, msg) ==
    /\ Request(payload)
    /\ InPlace(added(enabled_commands, command))
    /\ IF command \notin Range(enabled_commands)
       THEN send_framer_message(msg)
       ELSE Quiet
    /\ UNCHANGED << enable_autopilot, is_on_reverse, session_vars, lifecycle_vars >>

\* Mutant of remove: the notification is sent outside the if.
remove_loud(payload, command, msg) ==
    /\ Request(payload)
    /\ InPlace(removed(enabled_commands, command))
    /\ send_framer_message(msg)
    /\ UNCHANGED << enable_autopilot, is_on_reverse, session_vars, lifecycle_vars >>

\* The body shared by the four remove_* methods.
remove(payload, command, msg) ==
    /\ Request(payload)
    /\ InPlace(removed(enabled_commands, command))
    /\ IF command \in Range(enabled_commands)
       THEN send_framer_message(msg)
       ELSE Quiet
    /\ UNCHANGED << enable_autopilot, is_on_reverse, session_vars, lifecycle_vars >>

add_left     == add("left", "steer_left", "left")
remove_left  == remove("left_stop", "steer_left", "left_stop")
add_right    == add("right", "steer_right", "right")
remove_right == remove("right_stop", "steer_right", "right_stop")
add_accel    == add("forward", "accelerate", "speed_up")
remove_accel == remove("forward_stop", "accelerate", "speed_up_stop")
add_decel    == add("backward", "decelerate", "slow_down")
remove_decel == remove("backward_stop", "decelerate", "slow_down_stop")

\* add_brake: the queue after the call.
braked(commands) == << "throw_brake" >>

add_brake ==
    /\ Request("stop")
    /\ Rebind(braked(enabled_commands))
    /\ send_framer_message("stop")
    /\ UNCHANGED << enable_autopilot, is_on_reverse, session_vars, lifecycle_vars >>

\* Mutant of cleared: the empty list is compared with, not assigned.
compared_not_cleared(commands) == commands

\* clear: the queue after the call.
cleared(commands) == << >>

clear ==
    /\ Request("clear")
    /\ Rebind(cleared(enabled_commands))
    /\ Quiet
    /\ UNCHANGED << enable_autopilot, is_on_reverse, session_vars, lifecycle_vars >>

\* trigger_ap: the flag after the call.
toggled(flag) == ~flag

trigger_ap ==
    /\ Request("enable_ap")
    /\ enable_autopilot' = toggled(enable_autopilot)
    /\ Rebind(cleared(enabled_commands))
    /\ Quiet
    /\ UNCHANGED << is_on_reverse, session_vars, lifecycle_vars >>

\* Mutant of trigger_reverse: the queue is cleared too, as trigger_ap does.
reverse_and_clear ==
    /\ Request("reverse")
    /\ is_on_reverse' = toggled(is_on_reverse)
    /\ Rebind(cleared(enabled_commands))
    /\ Quiet
    /\ UNCHANGED << enable_autopilot, session_vars, lifecycle_vars >>

trigger_reverse ==
    /\ Request("reverse")
    /\ is_on_reverse' = toggled(is_on_reverse)
    /\ Quiet
    /\ UNCHANGED << enable_autopilot, enabled_commands, it_shared, it_list, session_vars, lifecycle_vars >>

\* trigger_reset: _on_new_episode on the running session, then the notification.
trigger_reset ==
    /\ Request("reset")
    /\ is_on_reverse' = new_episode_reverse
    /\ Rebind(new_episode_commands)
    /\ send_framer_message("reset")
    /\ UNCHANGED << enable_autopilot, session_vars, lifecycle_vars >>

\* do_POST with payload 'testmsg': no mutator is called.
testmsg ==
    /\ Request("testmsg")
    /\ Quiet
    /\ UNCHANGED << enable_autopilot, is_on_reverse, enabled_commands, it_shared, it_list,
                    session_vars, lifecycle_vars >>

do_POST ==
    \/ testmsg
    \/ trigger_ap
    \/ trigger_reset
    \/ add_left
    \/ remove_left
    \/ add_right
    \/ remove_right
    \/ trigger_reverse
    \/ add_accel
    \/ remove_accel
    \/ add_decel
    \/ remove_decel
    \/ add_brake
    \/ clear

-----------------------------------------------------------------------------

Next ==
    \/ initialize_game
    \/ on_loop
    \/ do_POST

Spec == Init /\ [][Next]_vars

TypeOK ==
    /\ enable_autopilot \in BOOLEAN
    /\ is_on_reverse \in BOOLEAN
    /\ Range(enabled_commands) \subseteq Commands
    /\ measurements \in Snapshots \cup { None }
    /\ pc \in { "new_episode", "read", "count", "autopilot", "loop", "return", "stopped" }
    /\ link \in BOOLEAN
    /\ game \in { 0 } \cup Sessions
    /\ main \in [ Sessions -> { "unborn", "connect", "sleep", "execute", "episode", "loop",
                              "ended" } ]
    /\ arrivals \in 0..MaxArrivals
    /\ number_of_commands \in 0..Cardinality(Commands)
    /\ it_index \in 0..Cardinality(Commands)
    /\ it_shared \in BOOLEAN
    /\ Range(it_list) \subseteq Commands
    /\ Len(sent) <= Cardinality(Commands)
    /\ framer \in { << >> } \cup { << t >> : t \in SECONDARY_SCREEN_COMMANDS }
    /\ raised \in BOOLEAN

-----------------------------------------------------------------------------
(* The life of a session: run, the startserver request, main, execute *)

\* The state once run() serves requests: the global game is None and no
\* thread runs main.  The variables of the game object stand at their
\* __init__ values until main makes one.
InitServer ==
    /\ NewGame
    /\ link \in BOOLEAN
    /\ game = 0
    /\ main = [ t \in Sessions |-> "unborn" ]
    /\ pc = "stopped"
    /\ number_of_commands = 0
    /\ it_index = 0
    /\ it_shared = FALSE
    /\ it_list = << >>
    /\ sent = << >>
    /\ arrivals = 0
    /\ content = ""
    /\ framer = << >>
    /\ raised = FALSE

game_vars == << enable_autopilot, is_on_reverse, enabled_commands, measurements >>

\* The simulator goes away, and comes back.
link_drops ==
    /\ link
    /\ link' = FALSE
    /\ UNCHANGED << game_vars, pc, tick_locals, sent, arrivals, request_vars, game, main >>

link_returns ==
    /\ ~link
    /\ link' = TRUE
    /\ UNCHANGED << game_vars, pc, tick_locals, sent, arrivals, request_vars, game, main >>

\* The thread of the game object the global names is inside execute.
Running == game # 0 /\ main[game] = "execute"

\* do_POST with payload 'startserver': _thread.start_new_thread(main, ...),
\* whatever game is and whatever threads run main already.
startserver ==
    /\ Request("startserver")
    /\ \E t \in Sessions :
          /\ main[t] = "unborn"
          /\ \A u \in 1..(t - 1) : main[u] # "unborn"
          /\ main' = [ main EXCEPT ![t] = "connect" ]
    /\ Quiet
    /\ UNCHANGED << game_vars, session_vars, it_shared, it_list, link, game >>

\* main, in its while loop: with make_carla_client(...) as client.  When the
\* simulator answers, game = CarlaGame(client, args) and execute begins; the
\* thread that was inside execute of the game named before goes on with that
\* object, which no request reaches any more, before its start_episode
\* ("episode") or in its tick loop ("loop").  Otherwise TCPConnectionError.
connect(t) ==
    /\ main[t] = "connect"
    /\ IF link
       THEN /\ game' = t
            /\ main' = [ u \in Sessions |->
                           IF u = t THEN "execute"
                           ELSE IF u = game /\ main[u] = "execute"
                                THEN IF pc = "new_episode" THEN "episode" ELSE "loop"
                                ELSE main[u] ]
            /\ enable_autopilot' = TRUE
            /\ is_on_reverse' = FALSE
            /\ enabled_commands' = << >>
            /\ measurements' = None
            /\ pc' = "new_episode"
            /\ number_of_commands' = 0
            /\ it_index' = 0
            /\ it_shared' = FALSE
            /\ it_list' = << >>
            /\ sent' = << >>
            /\ arrivals' = 0
       ELSE /\ main' = [ main EXCEPT ![t] = "sleep" ]
            /\ UNCHANGED << game_vars, pc, tick_locals, sent, arrivals, game >>
    /\ UNCHANGED << request_vars, link >>

\* main: except TCPConnectionError: time.sleep(1), and round the loop again.
sleep(t) ==
    /\ main[t] = "sleep"
    /\ main' = [ main EXCEPT ![t] = "connect" ]
    /\ UNCHANGED << game_vars, pc, tick_locals, sent, arrivals, request_vars, link, game >>

\* execute: _initialize_game, then _on_loop for ever.  start_episode and
\* read_data need the simulator.
execute ==
    /\ Running
    /\ \/ link /\ initialize_game
       \/ link /\ read_data
       \/ count_commands
       \/ check_autopilot
       \/ loop_step
       \/ return

\* start_episode raises TCPConnectionError outside the try of execute: the
\* exception reaches main, which sleeps and connects again.
episode_fails ==
    /\ Running
    /\ pc = "new_episode"
    /\ ~link
    /\ main' = [ main EXCEPT ![game] = "sleep" ]
    /\ pc' = "stopped"
    /\ UNCHANGED << game_vars, tick_locals, sent, arrivals, request_vars, link, game >>

\* read_data raises inside the try of execute.  The handler prints e.message,
\* which no Python 3 exception has: AttributeError leaves execute and main,
\* whose except clause names TCPConnectionError only.  Had the print
\* succeeded, execute would return and main would break out of its loop.
\* Either way the thread is over.
session_lost ==
    /\ Running
    /\ pc = "read"
    /\ ~link
    /\ main' = [ main EXCEPT ![game] = "ended" ]
    /\ pc' = "stopped"
    /\ UNCHANGED << game_vars, tick_locals, sent, arrivals, request_vars, link, game >>

\* The same two steps of a thread whose game object the global names no more.
orphan_episode(t) ==
    /\ main[t] = "episode"
    /\ main' = [ main EXCEPT ![t] = IF link THEN "loop" ELSE "sleep" ]
    /\ UNCHANGED << game_vars, pc, tick_locals, sent, arrivals, request_vars, link, game >>

orphan_lost(t) ==
    /\ main[t] = "loop"
    /\ ~link
    /\ main' = [ main EXCEPT ![t] = "ended" ]
    /\ UNCHANGED << game_vars, pc, tick_locals, sent, arrivals, request_vars, link, game >>

\* The payloads for which do_POST calls a method of game.
GamePayloads ==
    { "enable_ap", "reset", "left", "left_stop", "right", "right_stop", "reverse",
      "forward", "forward_stop", "backward", "backward_stop", "stop", "clear" }

\* do_POST calls game.<method>() while game is None: AttributeError.
no_game ==
    /\ game = 0
    /\ \E payload \in GamePayloads : Request(payload)
    /\ framer' = << >>
    /\ raised' = TRUE
    /\ UNCHANGED << game_vars, session_vars, it_shared, it_list, lifecycle_vars >>

\* trigger_reset when start_episode cannot be answered (the simulator is
\* away, or the session is over and its client closed): _on_new_episode
\* raises at its first call, before the flag and the queue are written.
reset_fails ==
    /\ game # 0
    /\ ~(link /\ Running)
    /\ Request("reset")
    /\ framer' = << >>
    /\ raised' = TRUE
    /\ UNCHANGED << game_vars, session_vars, it_shared, it_list, lifecycle_vars >>

reset_answered ==
    /\ link
    /\ Running
    /\ trigger_reset

\* The queues explored while sessions come and go: at most MaxQueued commands.
MaxQueued == 1

\* The requests that reach a game object.
game_POST ==
    /\ game # 0
    /\ \/ trigger_ap
       \/ Len(enabled_commands) < MaxQueued /\ add_left
       \/ remove_left
       \/ Len(enabled_commands) < MaxQueued /\ add_right
       \/ remove_right
       \/ trigger_reverse
       \/ Len(enabled_commands) < MaxQueued /\ add_accel
       \/ remove_accel
       \/ Len(enabled_commands) < MaxQueued /\ add_decel
       \/ remove_decel
       \/ add_brake
       \/ clear

NextServer ==
    \/ link_drops
    \/ link_returns
    \/ startserver
    \/ \E t \in Sessions : connect(t)
    \/ \E t \in Sessions : sleep(t)
    \/ \E t \in Sessions : orphan_episode(t)
    \/ \E t \in Sessions : orphan_lost(t)
    \/ execute
    \/ episode_fails
    \/ session_lost
    \/ testmsg
    \/ no_game
    \/ reset_fails
    \/ reset_answered
    \/ game_POST

SpecServer == InitServer /\ [][NextServer]_vars

-----------------------------------------------------------------------------
(* Properties *)

AutonomousOnly(m, by) == << Sent(by, m.autopilot_control) >>

\* The step by which the session thread leaves the place `at` of a tick.
TickStepFrom(at) == pc = at /\ ~(pc' = at /\ sent' = sent /\ it_index' = it_index)

\* C1: brake exclusivity -- in every reachable state, if the brake command is
\* in the queue then it is the queue's only member.
C1_BrakeExclusive ==
    "throw_brake" \in Range(enabled_commands) => enabled_commands = << "throw_brake" >>

\* C2: no duplicates -- in every reachable state the queue holds each command
\* at most once.
C2_NoDuplicates ==
    \A i, j \in 1..Len(enabled_commands) :
        i # j => enabled_commands[i] # enabled_commands[j]

\* A state after add(steer_left) found steer_left queued already (the request
\* 'left' ended without a notification and without an exception), next to
\* another command.
C2_Witness ==
    /\ content = "left"
    /\ framer = << >>
    /\ ~raised
    /\ "steer_left" \in Range(enabled_commands)
    /\ Len(enabled_commands) > 1

\* C3 as claimed: every finished tick has sent exactly one directive.
C3_ExactlyOne == pc = "return" => Len(sent) = 1

\* What a finished tick has sent, by the way it took.
C3_AtReturn ==
    pc = "return" =>
        /\ override(measurements) # "" =>
              sent = AutonomousOnly(measurements, override(measurements))
        /\ override(measurements) = "" /\ number_of_commands = 0 =>
              sent \in { << >>, AutonomousOnly(measurements, "autopilot") }
        /\ override(measurements) = "" /\ number_of_commands > 0 =>
              \A i \in 1..Len(sent) : sent[i].by \in Commands

\* C3 amended: a tick sends exactly one directive, the autonomous one, when a
\* traffic light or a pedestrian is too close, or when autopilot is enabled
\* and the tick counted no queued command; it sends none when autopilot is
\* disabled and it counted none; otherwise it sends one directive for each
\* queued command it executes, and no autonomous one.
C3_Amended ==
    /\ []C3_AtReturn
    /\ [][ TickStepFrom("autopilot") /\ number_of_commands = 0 =>
              Len(sent') = IF enable_autopilot THEN 1 ELSE 0 ]_vars

\* A finished tick that counted two queued commands and sent two directives.
C3_Witness ==
    /\ pc = "return"
    /\ override(measurements) = ""
    /\ number_of_commands = 2
    /\ Len(sent) = 2

\* C4: safety override -- a tick whose snapshot has a traffic light within
\* its threshold or a pedestrian within its threshold ends at once, having
\* sent the snapshot's autonomous directive and nothing else, so no queued
\* command is executed, whatever the autopilot flag and the queue are.
C4_SafetyOverride ==
    ( /\ InTick
      /\ \/ too_close_to(measurements, "traffic_light", traffic_light_distance_threshold)
         \/ too_close_to(measurements, "pedestrian", pedestrian_distance_threshold) )
    => /\ pc = "return"
       /\ Len(sent) = 1
       /\ sent[1].control = measurements.autopilot_control
       /\ sent[1].by \notin Commands

\* A finished tick with a pedestrian too close, autopilot disabled and
\* accelerate queued.
C4_Witness ==
    /\ pc = "return"
    /\ too_close_to(measurements, "pedestrian", pedestrian_distance_threshold)
    /\ ~enable_autopilot
    /\ "accelerate" \in Range(enabled_commands)
    /\ arrivals = 0
    /\ sent = AutonomousOnly(measurements, "pedestrian")

\* C5: mutual exclusion -- while a tick is between the start of its decision
\* and the end of its command execution, no request changes the queue, the
\* autopilot flag or the reverse flag.
C5_MutualExclusion ==
    [][ (pc \in { "count", "autopilot", "loop" }) =>
          (UNCHANGED << enabled_commands, enable_autopilot, is_on_reverse >>) ]_vars

\* C6: trigger_ap flips the autopilot flag and leaves the queue empty,
\* whatever the queue and the flag were.
C6_ToggleAutopilot ==
    [][ trigger_ap =>
          /\ enable_autopilot' = ~enable_autopilot
          /\ enabled_commands' = << >> ]_vars

\* trigger_ap has disabled autopilot and emptied a queue that held brake: the
\* one request handled in the running tick is enable_ap, and the tick's loop
\* is left with the list the queue was before it.
C6_Witness ==
    /\ content = "enable_ap"
    /\ arrivals = 1
    /\ ~enable_autopilot
    /\ enabled_commands = << >>
    /\ pc = "loop"
    /\ ~it_shared
    /\ "throw_brake" \in Range(it_list)

\* C7: trigger_reset on a running episode leaves the queue empty and the
\* reverse flag false, whatever they were, and the session thread goes on
\* from where it stood.
C7_Reset ==
    [][ trigger_reset /\ pc # "new_episode" =>
          /\ enabled_commands' = << >>
          /\ is_on_reverse' = FALSE
          /\ pc' = pc
          /\ pc' \in { "read", "count", "autopilot", "loop", "return" } ]_vars

\* trigger_reset in the middle of a tick over the queue [accelerate,
\* steer_right] with the reverse flag set: the tick has executed accelerate in
\* reverse, and the one request since is reset.
C7_Witness ==
    /\ content = "reset"
    /\ arrivals = 1
    /\ enabled_commands = << >>
    /\ ~is_on_reverse
    /\ pc = "loop"
    /\ ~it_shared
    /\ it_list = << "accelerate", "steer_right" >>
    /\ Len(sent) = 1
    /\ sent[1].control.reverse

\* C8: in a tick with no traffic light and no pedestrian too close, with
\* autopilot enabled and the queue empty, the tick sends the snapshot's
\* autonomous directive, nothing else, and ends.
C8_AutopilotDrives ==
    [][ ( /\ TickStepFrom("autopilot")
          /\ override(measurements) = ""
          /\ enable_autopilot
          /\ number_of_commands = 0
          /\ enabled_commands = << >> )
        => /\ sent' = AutonomousOnly(measurements, "autopilot")
           /\ pc' = "return" ]_vars

\* Such a tick, finished, with no request handled while it ran.
C8_Witness ==
    /\ pc = "return"
    /\ arrivals = 0
    /\ override(measurements) = ""
    /\ enable_autopilot
    /\ enabled_commands = << >>
    /\ number_of_commands = 0
    /\ sent = AutonomousOnly(measurements, "autopilot")

\* The request that adds, and the one that removes, the command x.
Adds(x) ==
    CASE x = "steer_left"  -> add_left
      [] x = "steer_right" -> add_right
      [] x = "accelerate"  -> add_accel
      [] x = "decelerate"  -> add_decel

Removes(x) ==
    CASE x = "steer_left"  -> remove_left
      [] x = "steer_right" -> remove_right
      [] x = "accelerate"  -> remove_accel
      [] x = "decelerate"  -> remove_decel

\* C9: add(x) with x queued and remove(x) with x not queued leave the queue
\* and the flags as they are, deliver no notification and raise no error.
C9_RedundantNoOp ==
    [][ \A x \in { "steer_left", "steer_right", "accelerate", "decelerate" } :
          ( \/ Adds(x) /\ x \in Range(enabled_commands)
            \/ Removes(x) /\ x \notin Range(enabled_commands) )
          => /\ UNCHANGED << enabled_commands, enable_autopilot, is_on_reverse >>
             /\ framer' = << >>
             /\ ~raised' ]_vars

\* After remove(steer_left) on an empty queue: the request 'left_stop' ended
\* without notification and without exception.
C9_Witness ==
    /\ content = "left_stop"
    /\ enabled_commands = << >>
    /\ framer = << >>
    /\ ~raised

\* C10: every directive a queued command sends carries the reverse flag as it
\* is when the command is executed.
C10_ReverseField ==
    [][ pc = "loop" /\ Len(sent') > Len(sent) =>
          sent'[Len(sent')].control.reverse = is_on_reverse ]_vars

\* The payloads whose mutator calls send_framer_message.
Notifying ==
    { "left", "left_stop", "right", "right_stop", "forward", "forward_stop",
      "backward", "backward_stop", "stop", "reset" }

\* C11: a status notification that cannot be delivered does not fail the
\* command that sent it -- the handler of a notifying request never ends with
\* an exception.
C11_SinkFailureContained == content \in Notifying => ~raised

\* C12: the loss of the session link is always recovered -- a thread started
\* for main never stops for good: it connects again, after its sleep, until
\* it is ticking again.  (No step leaves "ended".)
C12_NeverStops == \A t \in Sessions : main[t] # "ended"

\* C13: a reset request that finds the session link unavailable never returns
\* or raises with the queue and the reverse flag as they were: whenever the
\* handler of 'reset' is over, on a game object that exists, the queue is
\* empty and the reverse flag false.
C13_ResetCompletes ==
    [][ (reset_answered \/ reset_fails) =>
          /\ enabled_commands' = << >>
          /\ is_on_reverse' = FALSE ]_vars

\* C14: a reset request received before any game object exists is a no-op
\* that does not fail -- its handler does not end with an exception.
C14_ResetBeforeStart == (game = 0 /\ content = "reset") => ~raised

\* The threads that are inside main: connecting, sleeping before the next
\* attempt, or inside execute.
Active == { t \in Sessions : main[t] \notin { "unborn", "ended" } }

\* C15: at most one session is active at any time -- a startserver request
\* received while a thread is connecting or ticking starts no second one.
C15_OneSession == Cardinality(Active) <= 1

\* C16: trigger_reverse flips the reverse flag and changes nothing else of the
\* episode state: the queue, contents and order, and the autopilot flag are
\* after the call what they were before it.
C16_ReverseOnly ==
    [][ trigger_reverse =>
          /\ is_on_reverse' = ~is_on_reverse
          /\ enabled_commands' = enabled_commands
          /\ enable_autopilot' = enable_autopilot ]_vars

\* trigger_reverse has set the flag in the middle of a tick over a queue of
\* two commands, with autopilot disabled: the queue is as the tick counted
\* it, and the loop still runs over the list the queue names.
C16_Witness ==
    /\ content = "reverse"
    /\ arrivals = 1
    /\ is_on_reverse
    /\ ~enable_autopilot
    /\ pc = "loop"
    /\ it_shared
    /\ number_of_commands = 2
    /\ enabled_commands = << "steer_right", "decelerate" >>

\* The commands a tick has executed, in order.
Executed == [ i \in 1..Len(sent) |-> sent[i].by ]

\* The filter as C17 words it: of the queued commands, all but the steer
\* commands under lane drift and accelerate with a vehicle within its threshold.
Kept(m, command, drift) ==
    /\ ~(drift /\ command \in { "steer_left", "steer_right" })
    /\ ~(command = "accelerate" /\ too_close_to(m, "vehicle", vehicle_distance_threshold))

Filtered(commands, m, drift) == SelectSeq(commands, LAMBDA c : Kept(m, c, drift))

\* The loop passes over a command exactly when the filter does not keep it.
LoopFilterAsClaimed ==
    \A m \in Snapshots, command \in Commands, drift \in BOOLEAN :
        skipped(m, command, drift) <=> ~Kept(m, command, drift)

\* Of [steer_left, accelerate] under drift, with no vehicle near, accelerate
\* alone is left.
DriftExample ==
    \A m \in Snapshots :
        ~too_close_to(m, "vehicle", vehicle_distance_threshold) =>
            Filtered(<< "steer_left", "accelerate" >>, m, TRUE) = << "accelerate" >>

\* C17: a tick with no traffic light and no pedestrian too close and a
\* non-empty queue, with no request handled while it runs, executes exactly
\* the queued commands that the filter keeps, once each and in queue order;
\* and the loop's filter is that of the claim for every snapshot and command,
\* with and without lane drift (which moving_out_of_lane never reports), so
\* that [steer_left, accelerate] under drift with no vehicle near leaves
\* accelerate alone.
C17_Filtering ==
    /\ ( /\ pc = "return"
         /\ arrivals = 0
         /\ override(measurements) = ""
         /\ number_of_commands > 0 )
       => Executed = Filtered(enabled_commands, measurements, moving_out_of_lane)
    /\ LoopFilterAsClaimed
    /\ DriftExample

\* A finished tick over [accelerate, steer_left, decelerate] with a vehicle
\* within its threshold: accelerate was passed over, the other two executed.
C17_Witness ==
    /\ pc = "return"
    /\ arrivals = 0
    /\ override(measurements) = ""
    /\ too_close_to(measurements, "vehicle", vehicle_distance_threshold)
    /\ enabled_commands = << "accelerate", "steer_left", "decelerate" >>
    /\ Executed = << "steer_left", "decelerate" >>

\* C18: no step of a tick changes the episode state -- the queue (contents
\* and order), the autopilot flag and the reverse flag are after the step
\* what they were before it, so a queued command is still queued when the
\* next tick begins unless a request took it out.
C18_TickKeepsState ==
    [][ on_loop =>
          /\ enabled_commands' = enabled_commands
          /\ enable_autopilot' = enable_autopilot
          /\ is_on_reverse' = is_on_reverse ]_vars

\* A finished tick, undisturbed by requests, that has executed both commands
\* of its queue in reverse with autopilot disabled: the queue and the flags
\* stand.
C18_Witness ==
    /\ pc = "return"
    /\ arrivals = 0
    /\ is_on_reverse
    /\ ~enable_autopilot
    /\ enabled_commands = << "decelerate", "steer_right" >>
    /\ Len(sent) = 2
    /\ sent[1].by = "decelerate"
    /\ sent[2].by = "steer_right"

\* C19: a request handled while a tick runs never makes the tick pass over a
\* command that stayed queued throughout the tick.  When the one request
\* handled since the tick read its snapshot is a remove, every command queued
\* at the tick's end was queued all along: the finished tick has executed
\* each of them that the filter keeps.
C19_NothingSkipped ==
    ( /\ pc = "return"
      /\ arrivals = 1
      /\ content \in { "left_stop", "right_stop", "forward_stop", "backward_stop" }
      /\ override(measurements) = ""
      /\ number_of_commands > 0 )
    => \A command \in Range(enabled_commands) :
          Kept(measurements, command, moving_out_of_lane) =>
              command \in Range(Executed)

\* C20: every directive the loop of a tick has sent for accelerate has
\* throttle 1.0 (100 hundredths), and the tick's snapshot has no vehicle
\* within the threshold: accelerate never takes its self-limiting branch
\* when the loop calls it.
C20_FullThrottle ==
    \A i \in 1..Len(sent) :
        sent[i].by = "accelerate" =>
            /\ sent[i].control.throttle = 100
            /\ ~too_close_to(measurements, "vehicle", vehicle_distance_threshold)

\* A tick has executed accelerate, in reverse, on a snapshot whose autonomous
\* directive holds the car (throttle 0, brake 1.0): the directive sent has
\* full throttle.
C20_Witness ==
    /\ pc = "return"
    /\ measurements.autopilot_control = Halt
    /\ is_on_reverse
    /\ Len(sent) = 2
    /\ sent[2].by = "accelerate"
    /\ sent[2].control.throttle = 100
    /\ sent[2].control.reverse

=============================================================================
